---------------------------- MODULE Spec2Model ----------------------------
(***************************************************************************)
(* Record lifecycle of the HR data generator:                              *)
(*   - main.py: HRDataGenerator.generate / _generate_data_in_dict and      *)
(*     HRDataGenerator.update_data (the update-in-place path);             *)
(*   - event.py: generate_event (the batch path), whose pool comes from    *)
(*     base_data_generator.HRDataGenerator (get_data) or from a dataset    *)
(*     file.                                                               *)
(* Dict objects live in `heap`; lists hold references (indices into heap), *)
(* so that two list slots naming the same dict are visible as such.        *)
(* Fields that no rule reads or writes after creation (names, email,       *)
(* phone, address, date_of_birth) are left out of the record.              *)
(***************************************************************************)
EXTENDS Integers, Sequences, FiniteSets

VARIABLES
    catalog,    \* DEPARTMENT_POSITION_MAPPING (read-only)
    heap,       \* the dict objects: Seq of records
    pool,       \* the list the records are selected from: Seq of refs
    result,     \* the list the last call returned: Seq of refs
    outcome,    \* "none" | "returned" | "saved" | "raised"
    call,       \* the last call and its arguments / random draws
    before,     \* heap as it was when the last call started selecting
    store       \* where generate() left the dataset: none/memory/csv/parquet/json

vars == <<catalog, heap, pool, result, outcome, call, before, store>>

---------------------------------------------------------------------------
(* Bounds of the model *)

MaxCount == 2       \* largest count / record_count passed to generate
MaxUpdates == 2     \* largest count_of_records_to_update
MaxSample == 2      \* largest sample_size

\* outcomes of the random source's integer in [0, len): enough for every
\* list of the catalogs below
Rand == 0 .. 1

---------------------------------------------------------------------------
(* Taxonomy *)

EventType == <<"hire", "resignation", "promotion", "salary_increase", "department_change">>

UpdateType == <<"resignation", "promotion", "salary_increase", "department_change">>

OutputFormat == <<"dict", "csv", "parquet", "json">>

Range(s) == {s[i] : i \in DOMAIN s}

\* an update_type / output_format value outside the enums
Unknown == "unknown"

---------------------------------------------------------------------------
(* Department/Position catalog: keys in dict order, positions per key *)

CatalogTwo ==
    [keys |-> <<"Engineering", "Sales">>,
     positions |-> [Engineering |-> <<"Engineer", "Manager">>, Sales |-> <<"Rep">>]]

CatalogOne ==
    [keys |-> <<"Sales">>,
     positions |-> [Sales |-> <<"Rep">>]]

Catalogs == {CatalogTwo, CatalogOne}

---------------------------------------------------------------------------
(* The random source and Python's round() *)

\* fake.random_element(elements): uniform choice, r the underlying draw
random_element(elements, r) == elements[(r % Len(elements)) + 1]

SalaryMin == 35000
SalaryMax == 120000

\* fake.random_int(min=35000, max=120000): the draws the model enumerates
RandomInts == {35499, 119500}

\* every draw that is a multiple of 500: reaches every salary and every tie
AllRandomInts == {SalaryMin + 500 * j : j \in 0 .. ((SalaryMax - SalaryMin) \div 500)}

\* round half to even of the exact quotient N / D
RoundHalfEven(N, D) ==
    LET f == N \div D
        r == N % D
    IN  IF 2 * r < D THEN f
        ELSE IF 2 * r > D THEN f + 1
        ELSE IF f % 2 = 0 THEN f ELSE f + 1

\* round(x / 1000) for an int x: the float quotient is exact at the ties
\* (n + 0.5 is a double) and within 2^-36 of x/1000 elsewhere
PyRoundDiv1000(x) == RoundHalfEven(x, 1000)

\* The float literals, as the doubles they denote:
\*   value = num/den + (err/den) * 2^-52
Float1_1 == [num |-> 11, den |-> 10, err |-> 4]
Float1_2 == [num |-> 12, den |-> 10, err |-> -2]
Float1_05 == [num |-> 21, den |-> 20, err |-> 4]

RECURSIVE Pow2Floor(_, _)
\* the largest power of two <= P, from the candidate e
Pow2Floor(P, e) == IF 2 * e <= P THEN Pow2Floor(P, 2 * e) ELSE e

Abs(x) == IF x < 0 THEN -x ELSE x

\* Sign of fl(s * m) - P, where P = s * num/den is an integer: the exact
\* product is P + (s*err/den) * 2^-52 and is rounded to the 53-bit grid
\* around P, whose spacing is Pow2Floor(P) * 2^-52 (half of it below a
\* power of two).
FloatMulErrSign(s, m) ==
    LET P == (m.num * s) \div m.den
        E == Pow2Floor(P, 1)
        twice == 2 * Abs(m.err) * s
        r2 == IF m.err < 0 /\ P = E THEN 2 * twice ELSE twice
    IN  IF r2 > E * m.den THEN (IF m.err > 0 THEN 1 ELSE -1) ELSE 0

\* round(s * m / 1000) for an int s > 0 and a float literal m. Away from a
\* tie the float error (< 2^-20 for s < 2^31) cannot change the nearest
\* integer; at a tie the product s * num/den is an integer and the sign of
\* the multiplication's rounding error decides (it survives the division by
\* 1000), round-half-to-even applying when the product is exact.
PyRoundMulDiv1000(s, m) ==
    LET N == m.num * s
        D == m.den * 1000
        f == N \div D
        r == N % D
    IN  IF 2 * r < D THEN f
        ELSE IF 2 * r > D THEN f + 1
        ELSE LET c == FloatMulErrSign(s, m)
             IN  IF c > 0 THEN f + 1
                 ELSE IF c < 0 THEN f
                 ELSE IF f % 2 = 0 THEN f ELSE f + 1


---------------------------------------------------------------------------
(* Record Factory *)

\* number of iterations of `for _ in range(count)`
RangeLen(count) == IF count > 0 THEN count ELSE 0

\* the random draws one record consumes: department, position, salary
Seeds(ints) == [rd : Rand, rp : Rand, x : ints]

SeedLists(n, ints) == [1 .. n -> Seeds(ints)]

\* main.py: one iteration of _generate_data_in_dict (no event_type key)
NewRecord(seed) ==
    LET department == random_element(catalog.keys, seed.rd)
        position == random_element(catalog.positions[department], seed.rp)
    IN  [department |-> department,
         position |-> position,
         hire_date |-> "drawn",
         salary |-> PyRoundDiv1000(seed.x) * 1000,
         event_type |-> "absent",
         event_date |-> "absent",
         resignation_date |-> "absent"]

\* main.py: HRDataGenerator._generate_data_in_dict, one seed per iteration
generate_data_in_dict(seeds) == [i \in 1 .. Len(seeds) |-> NewRecord(seeds[i])]

\* base_data_generator.py: one iteration of _generate_data_in_dict
\* (the record carries event_type = HIRE)
NewRecordBase(seed) == [NewRecord(seed) EXCEPT !.event_type = "hire"]

\* event.py: get_data(record_count) through base_data_generator's generate
get_data(seeds) == [i \in 1 .. Len(seeds) |-> NewRecordBase(seeds[i])]

Refs(h) == [i \in 1 .. Len(h) |-> i]

NoCall == [op |-> "none", kind |-> "", count |-> 0, sample |-> 0, path |-> ""]

\* main.py: HRDataGenerator.generate(count, output_format): the state it leaves
GenerateOutcome(count, output_format, seeds) ==
    LET data == generate_data_in_dict(seeds)
        c == [op |-> "generate", kind |-> output_format, count |-> count,
              sample |-> 0, path |-> ""]
    IN  IF output_format = "dict"
        THEN [heap |-> data, pool |-> Refs(data), result |-> Refs(data),
              outcome |-> "returned", store |-> "memory", call |-> c]
        ELSE IF output_format \in Range(OutputFormat)
        THEN [heap |-> data, pool |-> Refs(data), result |-> <<>>,
              outcome |-> "saved", store |-> output_format, call |-> c]
        ELSE [heap |-> <<>>, pool |-> <<>>, result |-> <<>>,
              outcome |-> "raised", store |-> "none", call |-> c]

Generate(count, output_format) ==
    /\ call.op = "none"
    /\ \E seeds \in SeedLists(RangeLen(count), RandomInts) :
         LET g == GenerateOutcome(count, output_format, seeds)
         IN  /\ heap' = g.heap
             /\ pool' = g.pool
             /\ result' = g.result
             /\ outcome' = g.outcome
             /\ store' = g.store
             /\ call' = g.call
             /\ before' = g.heap
    /\ UNCHANGED catalog

---------------------------------------------------------------------------
(* Event Mutator, update-in-place path: main.py update_data *)

\* possible_other_positions with the department filter lost: the other
\* positions of the whole mapping
OtherPositionsAnyDepartment(record) ==
    SelectSeq(catalog.positions[catalog.keys[1]] \o catalog.positions[catalog.keys[Len(catalog.keys)]],
              LAMBDA pos : pos # record.position)

\* line 93: positions of the record's department other than its own
possible_other_positions(record) ==
    SelectSeq(catalog.positions[record.department], LAMBDA pos : pos # record.position)

\* possible_departments without the exclusion of the current department
AllDepartments(record) == catalog.keys

\* line 100: departments other than the record's own
possible_departments(record) ==
    SelectSeq(catalog.keys, LAMBDA dept : dept # record.department)

\* lines 96, 105: 10% increase
UpdateRaise10(salary) == PyRoundMulDiv1000(salary, Float1_1) * 1000

\* the 5% increase with the factor lost: round(salary / 1000) * 1000
RaiseWithoutFactor(salary) == PyRoundDiv1000(salary) * 1000

\* line 98: 5% increase
UpdateRaise5(salary) == PyRoundMulDiv1000(salary, Float1_05) * 1000

\* lines 88-105: the body of one loop iteration, on the selected record
UpdateRecord(record, update_type, rd, rp) ==
    LET stamped == [record EXCEPT !.event_date = "today"]
    IN  IF update_type = "resignation"
        THEN [stamped EXCEPT !.resignation_date = "today"]
        ELSE IF update_type = "promotion"
        THEN LET others == possible_other_positions(stamped)
                 moved == IF others # <<>>
                          THEN [stamped EXCEPT !.position = random_element(others, rp)]
                          ELSE stamped
             IN  [moved EXCEPT !.salary = UpdateRaise10(moved.salary)]
        ELSE IF update_type = "salary_increase"
        THEN [stamped EXCEPT !.salary = UpdateRaise5(stamped.salary)]
        ELSE IF update_type = "department_change"
        THEN LET depts == possible_departments(stamped)
             IN  IF depts # <<>>
                 THEN LET new_department == random_element(depts, rd)
                      IN  [stamped EXCEPT
                             !.department = new_department,
                             !.position = random_element(catalog.positions[new_department], rp),
                             !.salary = UpdateRaise10(stamped.salary)]
                 ELSE stamped
        ELSE stamped

\* the draws of one iteration: the record selected (with replacement) and
\* the department / position choices the update type consumes
StepInputs(update_type, input_data) ==
    [pick : DOMAIN input_data,
     rd : IF update_type = "department_change" THEN Rand ELSE {0},
     rp : IF update_type \in {"promotion", "department_change"} THEN Rand ELSE {0}]

RECURSIVE UpdateLoop(_, _, _, _, _)
\* lines 86-106: iterations i .. Len(steps) applied to the heap h
UpdateLoop(h, input_data, update_type, steps, i) ==
    IF i > Len(steps) THEN h
    ELSE LET ref == input_data[steps[i].pick]
             h2 == [h EXCEPT ![ref] = UpdateRecord(h[ref], update_type, steps[i].rd, steps[i].rp)]
         IN  UpdateLoop(h2, input_data, update_type, steps, i + 1)

UpdateData(update_type, count_of_records_to_update) ==
    /\ call.op = "generate"
    /\ store = "memory"
    /\ IF count_of_records_to_update >= 1 /\ pool = <<>>
       THEN \* random_element of an empty list raises in the first iteration
            /\ heap' = heap
            /\ result' = <<>>
            /\ outcome' = "raised"
       ELSE \E steps \in [1 .. RangeLen(count_of_records_to_update)
                            -> StepInputs(update_type, pool)] :
            /\ heap' = UpdateLoop(heap, pool, update_type, steps, 1)
            /\ result' = [i \in 1 .. Len(steps) |-> pool[steps[i].pick]]
            /\ outcome' = "returned"
    /\ call' = [op |-> "update_data", kind |-> update_type,
                count |-> count_of_records_to_update, sample |-> 0, path |-> ""]
    /\ before' = heap
    /\ UNCHANGED <<catalog, pool, store>>

---------------------------------------------------------------------------
(* Event Mutator and Batch Sampler, batch path: event.py generate_event *)

\* the path arguments: the default (None), a csv file, a json file, and a
\* string holding neither ".csv" nor ".json"
NonePath == "None"
CsvPath == "hr_data.csv"
JsonPath == "hr_data.json"
OtherPath == "hr_data"
Paths == {NonePath, CsvPath, JsonPath, OtherPath}

\* random.sample(population of n, k): the ordered selections without
\* replacement (ValueError when k < 0 or k > n is decided by the caller)
Samples(n, k) ==
    {s \in [1 .. k -> 1 .. n] : \A i, j \in 1 .. k : i # j => s[i] # s[j]}

\* line 78: PROMOTION in the batch path
EventRaise20(salary) == PyRoundMulDiv1000(salary, Float1_2) * 1000

\* line 84: SALARY_INCREASE in the batch path
EventRaise10(salary) == PyRoundMulDiv1000(salary, Float1_1) * 1000

\* lines 89-91: DEPARTMENT_CHANGE draws from every key of the mapping
event_departments == catalog.keys

\* lines 70-102: the loop body of the drawn event type on one sampled record
EventRecord(record, event_type, seed) ==
    IF event_type = "resignation"
    THEN [record EXCEPT !.event_type = "resignation", !.event_date = "today"]
    ELSE IF event_type = "promotion"
    THEN [record EXCEPT !.event_type = "promotion",
                        !.salary = EventRaise20(record.salary),
                        !.event_date = "today"]
    ELSE IF event_type = "salary_increase"
    THEN [record EXCEPT !.event_type = "salary_increase",
                        !.salary = EventRaise10(record.salary),
                        !.event_date = "today"]
    ELSE LET new_department == random_element(event_departments, seed.rd)
             new_position == random_element(catalog.positions[new_department], seed.rp)
         IN  [record EXCEPT !.event_type = "department_change",
                            !.department = new_department,
                            !.position = new_position,
                            !.salary = PyRoundDiv1000(seed.x) * 1000,
                            !.event_date = "today"]

\* the draws the loop body consumes for one record
EventSeeds(event_type) ==
    IF event_type = "department_change" THEN Seeds(RandomInts)
    ELSE [rd : {0}, rp : {0}, x : {SalaryMin}]

\* lines 63-69: the HIRE branch's new employee
NewEmployee(seed) == [NewRecordBase(seed) EXCEPT !.event_type = "hire", !.hire_date = "today"]

\* position of ref in the sample, 0 when it was not sampled
SampleIndex(sample, ref) ==
    IF \E k \in DOMAIN sample : sample[k] = ref
    THEN CHOOSE k \in DOMAIN sample : sample[k] = ref
    ELSE 0

\* lines 70-102: the heaps the loop over the sampled records can leave, one
\* per outcome of the draws it consumes
EventHeaps(population, input_data, event_type) ==
    {[ref \in 1 .. Len(population) |->
        LET k == SampleIndex(input_data, ref)
        IN  IF k = 0 THEN population[ref]
            ELSE EventRecord(population[ref], event_type, seeds[k])] :
     seeds \in [1 .. Len(input_data) -> EventSeeds(event_type)]}

\* lines 56-61: whether the dataset the path names can be read
Readable(path) ==
    \/ path = CsvPath /\ store = "csv"
    \/ path = JsonPath /\ store = "json"

\* lines 56-61: the populations random.sample may be given
Populations(record_count, path) ==
    IF path \in {CsvPath, JsonPath}
    THEN {heap}
    ELSE {get_data(seeds) : seeds \in SeedLists(RangeLen(record_count), RandomInts)}

GenerateEvent(record_count, path, sample_size) ==
    /\ call.op \in {"none", "generate"}
    /\ path = OtherPath => call.op = "none"
    /\ \E event_type \in Range(EventType) :
        /\ call' = [op |-> "generate_event", kind |-> event_type,
                    count |-> record_count, sample |-> sample_size, path |-> path]
        /\ IF path = NonePath \/ (path \in {CsvPath, JsonPath} /\ ~Readable(path))
           THEN \* `".csv" in None` raises TypeError; a missing file fails to read
                /\ outcome' = "raised"
                /\ result' = <<>>
                /\ UNCHANGED <<heap, pool>>
                /\ before' = heap
           ELSE \E population \in Populations(record_count, path) :
                /\ pool' = Refs(population)
                /\ before' = population
                /\ IF sample_size < 0 \/ sample_size > Len(population)
                   THEN \* random.sample raises ValueError
                        /\ outcome' = "raised"
                        /\ result' = <<>>
                        /\ heap' = population
                   ELSE \E input_data \in Samples(Len(population), sample_size) :
                        /\ outcome' = "returned"
                        /\ IF event_type = "hire"
                           THEN \E seed \in Seeds(RandomInts) :
                                /\ heap' = Append(population, NewEmployee(seed))
                                /\ result' = <<Len(population) + 1>>
                           ELSE IF event_type \in Range(EventType)
                           THEN /\ heap' \in EventHeaps(population, input_data, event_type)
                                /\ result' = input_data
                           ELSE \* line 104: the fallback
                                /\ heap' = population
                                /\ result' = <<>>
    /\ UNCHANGED <<catalog, store>>

---------------------------------------------------------------------------
(* Specifications *)

Init ==
    /\ catalog \in Catalogs
    /\ heap = <<>>
    /\ pool = <<>>
    /\ result = <<>>
    /\ outcome = "none"
    /\ call = NoCall
    /\ before = <<>>
    /\ store = "none"

GenerateCall ==
    \E count \in -1 .. MaxCount, output_format \in Range(OutputFormat) \cup {Unknown} :
        Generate(count, output_format)

UpdateDataCall ==
    \E update_type \in Range(UpdateType) \cup {Unknown}, n \in -1 .. MaxUpdates :
        UpdateData(update_type, n)

GenerateEventCall ==
    \E path \in Paths, sample_size \in -1 .. MaxSample :
        \E record_count \in (IF path = OtherPath THEN -1 .. MaxCount ELSE {1}) :
            GenerateEvent(record_count, path, sample_size)

Next == GenerateCall \/ UpdateDataCall \/ GenerateEventCall

Spec == Init /\ [][Next]_vars

\* The salary rules as functions of the salary: the state right after
\* generate(1, ...) for every salary the factory can produce.
InitSalary ==
    /\ catalog \in Catalogs
    /\ \E output_format \in {"dict", "csv", "json"}, seeds \in SeedLists(1, AllRandomInts) :
         LET g == GenerateOutcome(1, output_format, seeds)
         IN  /\ heap = g.heap
             /\ pool = g.pool
             /\ result = g.result
             /\ outcome = g.outcome
             /\ store = g.store
             /\ call = g.call
             /\ before = g.heap

NextSalary == UpdateDataCall \/ GenerateEventCall

SpecSalary == InitSalary /\ [][NextSalary]_vars

---------------------------------------------------------------------------
(* Properties *)

Returned(op) == call.op = op /\ outcome = "returned"

\* the records of the returned list named exactly once in it
PickedOnce(ref) == Cardinality({k \in DOMAIN result : result[k] = ref}) = 1

InSalaryBounds(record) ==
    /\ record.salary % 1000 = 0
    /\ record.salary >= SalaryMin
    /\ record.salary <= SalaryMax

\* C1: every record's salary is a multiple of 1000 within [35000, 120000],
\* after generate() and after every update_data / generate_event mutation.
C1_SalaryInBounds == \A ref \in DOMAIN heap : InSalaryBounds(heap[ref])

PairInCatalog(record) ==
    /\ record.department \in Range(catalog.keys)
    /\ record.position \in Range(catalog.positions[record.department])

\* C2: every record's department is a key of the catalog and its position a
\* member of that department's positions, after generate() and after every
\* update_data / generate_event mutation.
C2_PairConsistent == \A ref \in DOMAIN heap : PairInCatalog(heap[ref])

\* C2 witness: update_data has promoted a record to another position of its
\* department.
C2_Witness ==
    /\ Returned("update_data")
    /\ call.kind = "promotion"
    /\ \E k \in DOMAIN result :
         /\ heap[result[k]].position # before[result[k]].position
         /\ heap[result[k]].department = before[result[k]].department

\* C3: after update_data or generate_event applied a non-HIRE kind, every
\* returned record's event_type equals that kind.
C3_EventTypeIsKind ==
    ((Returned("update_data") \/ Returned("generate_event")) /\ call.kind \in Range(UpdateType))
        => \A k \in DOMAIN result : heap[result[k]].event_type = call.kind

\* C4: one pass selects each record at most once: the returned list names no
\* record twice, and a PROMOTION pass leaves each returned record with the
\* rule applied once to its salary before the call.
C4_SelectedOnce ==
    (Returned("update_data") \/ Returned("generate_event"))
        => /\ \A i, j \in DOMAIN result : i # j => result[i] # result[j]
           /\ (call.op = "update_data" /\ call.kind = "promotion")
                => \A k \in DOMAIN result :
                     heap[result[k]].salary = UpdateRaise10(before[result[k]].salary)
           /\ (call.op = "generate_event" /\ call.kind = "promotion")
                => \A k \in DOMAIN result :
                     heap[result[k]].salary = EventRaise20(before[result[k]].salary)

\* C5: a kind outside the enum makes the mutator raise: update_data asked
\* to update at least one record with an unknown update_type, and
\* generate_event with an event type outside EventType, never return.
C5_UnknownKindRaises ==
    /\ (call.op = "update_data" /\ call.count >= 1 /\ call.kind \notin Range(UpdateType))
         => outcome = "raised"
    /\ (call.op = "generate_event" /\ call.kind \notin Range(EventType)) => outcome = "raised"

\* C6: selecting more records than the pool holds raises, returns nothing
\* and leaves the pool's records as they were.
C6_OversizeRaises ==
    (\/ call.op = "update_data" /\ call.count > Len(pool)
     \/ call.op = "generate_event" /\ call.sample > Len(pool))
        => /\ outcome = "raised"
           /\ result = <<>>
           /\ \A ref \in DOMAIN pool : heap[pool[ref]] = before[pool[ref]]

\* C7: PROMOTION and SALARY_INCREASE strictly increase the salary, under each
\* of the four multipliers: every record a promotion / salary-increase call
\* returned earns more than before the call, and every salary reached
\* (generated or already raised) is strictly raised by each rule.
C7_StrictIncrease ==
    /\ ((Returned("update_data") \/ Returned("generate_event"))
            /\ call.kind \in {"promotion", "salary_increase"})
         => \A k \in DOMAIN result : heap[result[k]].salary > before[result[k]].salary
    /\ \A ref \in DOMAIN heap :
         /\ UpdateRaise10(heap[ref].salary) > heap[ref].salary
         /\ UpdateRaise5(heap[ref].salary) > heap[ref].salary
         /\ EventRaise20(heap[ref].salary) > heap[ref].salary
         /\ EventRaise10(heap[ref].salary) > heap[ref].salary

\* C7 witness: update_data's SALARY_INCREASE has acted on 50000, where
\* 50000 * 1.05 / 1000 is the tie 52.5 and rounds to the even 52.
C7_Witness ==
    /\ Returned("update_data")
    /\ call.kind = "salary_increase"
    /\ \E k \in DOMAIN result :
         /\ before[result[k]].salary = 50000
         /\ heap[result[k]].salary = 52000

\* update_data's DEPARTMENT_CHANGE has returned, and ref was selected once
DepartmentChanged(ref) ==
    /\ Returned("update_data")
    /\ call.kind = "department_change"
    /\ ref \in Range(result)
    /\ PickedOnce(ref)

\* C8 as stated: for every non-empty catalog, one DEPARTMENT_CHANGE of
\* update_data leaves the record in a department other than the one it had,
\* with a position of the new department.
C8_AlwaysOtherDepartment ==
    \A ref \in DOMAIN heap :
        DepartmentChanged(ref)
            => /\ heap[ref].department # before[ref].department
               /\ heap[ref].position \in Range(catalog.positions[heap[ref].department])

\* C8 amended: for every catalog with at least two departments, one
\* DEPARTMENT_CHANGE of update_data leaves the record in a department other
\* than the one it had, with a position of the new department.
C8_OtherDepartmentWhenTwo ==
    \A ref \in DOMAIN heap :
        (Len(catalog.keys) >= 2 /\ DepartmentChanged(ref))
            => /\ heap[ref].department # before[ref].department
               /\ heap[ref].position \in Range(catalog.positions[heap[ref].department])

\* C8 witness: under the two-department catalog a record was moved once.
C8_Witness ==
    \E ref \in DOMAIN heap :
        /\ Len(catalog.keys) >= 2
        /\ DepartmentChanged(ref)
        /\ before[ref].department = "Sales"
        /\ heap[ref].department = "Engineering"

\* C9: generate(count) with the DICT format returns exactly count records
\* for count >= 0 and rejects a negative count.
C9_GenerateCount ==
    (call.op = "generate" /\ call.kind = "dict")
        => IF call.count >= 0
           THEN outcome = "returned" /\ Len(result) = call.count
           ELSE outcome = "raised"

\* C10: when generate_event draws HIRE on a usable path, the call returns
\* exactly one new record with event_type HIRE and hire_date today, whatever
\* the pool and the sample_size >= 0 are, and the pool's records are
\* untouched.
C10_HireBypassesSampler ==
    (/\ call.op = "generate_event"
     /\ call.kind = "hire"
     /\ call.sample >= 0
     /\ (call.path = OtherPath \/ Readable(call.path)))
        => /\ outcome = "returned"
           /\ Len(result) = 1
           /\ result[1] \notin Range(pool)
           /\ heap[result[1]].event_type = "hire"
           /\ heap[result[1]].hire_date = "today"
           /\ \A ref \in DOMAIN pool : heap[pool[ref]] = before[pool[ref]]

===========================================================================
